---- MODULE Spec2Model ----
(***************************************************************************)
(* Model of package RustScan (yhy0/RustScan): Scanner.Run, the result      *)
(* filters chooseHosts / choosePorts, analyzeWarnings and Structure.       *)
(*                                                                         *)
(* Text is modelled as a sequence of symbols.  A symbol is a string that   *)
(* stands for one indivisible run of bytes of the real text; a token the   *)
(* code searches for that a read boundary can cut ("Open ") is spelled as  *)
(* two symbols.  NUL is the zero byte of a freshly made []byte.            *)
(***************************************************************************)
EXTENDS Integers, Sequences, FiniteSets, TLC

(***************************************************************************)
(* Bounds of the model.                                                    *)
(***************************************************************************)
\* most "Open " lines the process prints
MaxOpen == 2
\* most "Open " lines the process prints ahead of a report or a notice
MaxOpenReport == 1
\* longest host sequence and longest port sequence of a report given to a filter
MaxHosts == 2
MaxPorts == 2
\* largest limit passed to Run
MaxLimit == 1

\* most warning lines given to analyzeWarnings
MaxWarnings == 3

\* longest accumulated text given to the extraction of lines 191-200
MaxText == 4

\* longest configured argument list, most unused slots of its array, most
\* calls of Run on one scanner
MaxArgs == 3
MaxSpare == 3
MaxRuns == 3

\* symbols in one read buffer: make([]byte, 1024) of line 143, scaled down
ChunkSize == 4

(***************************************************************************)
(* Program constants.                                                      *)
(***************************************************************************)
\* done := make(chan error, 1)
DoneCap == 1

NUL == "\\0"
\* "Open " as the two pieces a read boundary can separate
OpenMarker == <<"Op", "en ">>
\* "[~]"
InfoDelim == "[~]"
\* "<?xml "
XmlDecl == "<?xml "
\* "Looks like I didn't find any open ports"
NoPortsNotice == "Looks like I didn't find any open ports"
\* "Malloc Failed!"
MallocMarker == "Malloc Failed!"
\* "Error resolving name"
ResolveMarker == "Error resolving name"
NL == "\n"

\* errors.New values of the package (an error is modelled by its text)
NoErr == <<>>
ErrScanTimeout == <<"RustScan scan timed out">>
ErrMallocFailed == <<"malloc failed, probably out of space">>
ErrParseOutput == <<"unable to parse RustScan output, see warnings for details">>
ErrResolveName == <<"RustScan could not resolve a name">>
\* referenced by Run; its declaration is not among the sources
ErrScanCDN == <<"ErrScanCDN">>
\* the error of a failed cmd.Start()
ErrStart == <<"exec: start failed">>

(***************************************************************************)
(* package strings / bytes                                                 *)
(***************************************************************************)
\* strings.Contains(s, sub)
Contains(s, sub) ==
  \E i \in 1..(Len(s) - Len(sub) + 1) : SubSeq(s, i, i + Len(sub) - 1) = sub

\* index of the first occurrence of symbol c in s, 0 when there is none
IndexOf(s, c) ==
  IF \E i \in 1..Len(s) : s[i] = c
  THEN CHOOSE i \in 1..Len(s) : s[i] = c /\ \A j \in 1..(i - 1) : s[j] # c
  ELSE 0

\* strings.Split(s, c) for a one-symbol separator c
RECURSIVE Split(_, _)
Split(s, c) ==
  LET i == IndexOf(s, c) IN
  IF i = 0 THEN <<s>>
  ELSE <<SubSeq(s, 1, i - 1)>> \o Split(SubSeq(s, i + 1, Len(s)), c)

\* strings.Trim(s, c) for a one-symbol cutset c
RECURSIVE TrimLeft(_, _)
TrimLeft(s, c) ==
  IF Len(s) > 0 /\ s[1] = c THEN TrimLeft(Tail(s), c) ELSE s
RECURSIVE TrimRight(_, _)
TrimRight(s, c) ==
  IF Len(s) > 0 /\ s[Len(s)] = c THEN TrimRight(SubSeq(s, 1, Len(s) - 1), c) ELSE s
Trim(s, c) == TrimRight(TrimLeft(s, c), c)

\* strings.ReplaceAll(s, old, new) for one-symbol old and new
ReplaceAll(s, old, new) == [i \in 1..Len(s) |-> IF s[i] = old THEN new ELSE s[i]]

\* tmp := make([]byte, 1024) after Read has stored the bytes b in it
ReadBuffer(b) == b \o [i \in 1..(ChunkSize - Len(b)) |-> NUL]

(***************************************************************************)
(* Report model: a *Run is "nil" or "obj", the one Run object Parse        *)
(* allocates; obj holds that object's fields.                              *)
(***************************************************************************)
Port(id, state) == [ID |-> id, State |-> state]
Host(addr, ports) == [Addr |-> addr, Ports |-> ports]
Report(hosts, elapsed, msg) == [Hosts |-> hosts, Elapsed |-> elapsed, ErrorMsg |-> msg]
NoObj == Report(<<>>, 0, <<>>)

\* The root elements the process can print (Elapsed in 1/100 s).
Documents ==
  [d \in {"<nmaprun ok>", "<nmaprun resolve>", "<nmaprun failed>",
          "<nmaprun rustscan_info>", "<nmaprun www.baidu.com>"} |->
     CASE d = "<nmaprun ok>" ->
            Report(<<Host("example.test", <<Port(80, "open"), Port(443, "closed")>>),
                     Host("other.test", <<>>)>>, 25, <<>>)
       [] d = "<nmaprun resolve>" ->
            Report(<<>>, 0, <<ResolveMarker, " example.test">>)
       [] d = "<nmaprun failed>" ->
            Report(<<>>, 0, <<"scan aborted">>)
       [] d = "<nmaprun rustscan_info>" ->
            Report(<<Host("rustscan_info", <<Port(80, "closed")>>)>>, 25, <<>>)
       [] d = "<nmaprun www.baidu.com>" ->
            Report(<<Host("www.baidu.com", <<Port(80, "closed")>>)>>, 25, <<>>)]

\* Parse(content): the first root element of the input decides the result;
\* before it only the declaration and blanks may stand, what follows its end
\* is not read.  err is the parser's error text, <<>> when there is none.
Parse(content) ==
  LET roots == {i \in 1..Len(content) : content[i] \in DOMAIN Documents}
      first == CHOOSE i \in roots : \A j \in roots : i <= j
  IN  IF Len(content) = 0 THEN [run |-> NoObj, err |-> <<"EOF">>]
      ELSE IF roots = {} \/ \E j \in 1..(first - 1) : content[j] \notin {XmlDecl, " ", NL}
      THEN [run |-> NoObj, err |-> <<"XML syntax error">>]
      ELSE [run |-> Documents[content[first]], err |-> NoErr]

\* Structure()
close_info == <<XmlDecl, "<nmaprun rustscan_info>">>
Structure == ReplaceAll(close_info, "<nmaprun rustscan_info>", "<nmaprun www.baidu.com>")

\* fmt.Errorf(msg): msg is the format string, a verb in it finds no operand
Errorf(msg) ==
  [i \in 1..Len(msg) |-> IF msg[i] \in {"%d", "%s", "%v"}
                         THEN "%!(MISSING)" ELSE msg[i]]

\* named predicates a caller can install with WithFilterPort / WithFilterHost
PortFilters == {"open", "all", "none"}
HostFilters == {"hasPorts", "all", "none"}
portPred(f, p) ==
  CASE f = "open" -> p.State = "open"
    [] f = "all" -> TRUE
    [] f = "none" -> FALSE
hostPred(f, h) ==
  CASE f = "hasPorts" -> Len(h.Ports) > 0
    [] f = "all" -> TRUE
    [] f = "none" -> FALSE

RECURSIVE filterPortsLoop(_, _)
filterPortsLoop(ports, f) ==
  IF ports = <<>> THEN <<>>
  ELSE (IF portPred(f, Head(ports)) THEN <<Head(ports)>> ELSE <<>>)
         \o filterPortsLoop(Tail(ports), f)
RECURSIVE filterHostsLoop(_, _)
filterHostsLoop(hosts, f) ==
  IF hosts = <<>> THEN <<>>
  ELSE (IF hostPred(f, Head(hosts)) THEN <<Head(hosts)>> ELSE <<>>)
         \o filterHostsLoop(Tail(hosts), f)

\* chooseHosts without the assignment result.Hosts = filteredHosts
chooseHostsNoAssign(o, f) == o

\* chooseHosts(result, filter): the object result points to after the call
\* (result.Hosts = filteredHosts; return result)
chooseHosts(o, f) == [o EXCEPT !.Hosts = filterHostsLoop(o.Hosts, f)]

\* choosePorts whose loop stops after the first host
choosePortsFirstHost(o, f) ==
  [o EXCEPT !.Hosts = [idx \in 1..Len(o.Hosts) |->
      IF idx = 1 THEN [o.Hosts[idx] EXCEPT !.Ports = filterPortsLoop(o.Hosts[idx].Ports, f)]
      ELSE o.Hosts[idx]]]

\* choosePorts(result, filter): result.Hosts[idx].Ports = filteredPorts
choosePorts(o, f) ==
  [o EXCEPT !.Hosts = [idx \in 1..Len(o.Hosts) |->
      [o.Hosts[idx] EXCEPT !.Ports = filterPortsLoop(o.Hosts[idx].Ports, f)]]]

\* analyzeWarnings comparing each warning with the marker instead of searching it
analyzeWarningsExactLine(w) ==
  IF \E i \in 1..Len(w) : w[i] = <<MallocMarker>> THEN ErrMallocFailed ELSE NoErr

\* analyzeWarnings that looks at the first warning only
analyzeWarningsFirstOnly(w) ==
  IF Len(w) > 0 /\ Contains(w[1], <<MallocMarker>>) THEN ErrMallocFailed ELSE NoErr

\* analyzeWarnings(warnings)
analyzeWarnings(w) ==
  IF \E i \in 1..Len(w) : Contains(w[i], <<MallocMarker>>) THEN ErrMallocFailed ELSE NoErr

\* lines 179-181: the warnings Run derives from the stderr buffer
splitWarnings(e) == IF Len(e) > 0 THEN Split(Trim(e, NL), NL) ELSE <<>>

\* line 195 taking the whole segment
payloadOfWhole(info) == info

\* line 195: out = []byte(info[1:])
payloadOf(info) == Tail(info)

\* lines 194-198 with the two tests in the other order
extractStepNoticeFirst(info, o) ==
  IF Contains(info, <<NoPortsNotice>>) THEN Structure
  ELSE IF Contains(info, <<XmlDecl>>) THEN payloadOf(info)
  ELSE o

\* lines 194-198: out after the loop body has seen the segment info
extractStep(info, o) ==
  IF Contains(info, <<XmlDecl>>) THEN payloadOf(info)
  ELSE IF Contains(info, <<NoPortsNotice>>) THEN Structure
  ELSE o

\* lines 191-200: the bytes handed to Parse
RECURSIVE extractLoop(_, _)
extractLoop(infos, o) ==
  IF infos = <<>> THEN o
  ELSE extractLoop(Tail(infos), extractStep(Head(infos), o))
extractOut(text) == extractLoop(Split(text, InfoDelim), <<>>)

\* line 204 left out: the parser's error text is dropped
appendParseErrorDropped(w, e) == w

\* line 204: warnings = append(warnings, err.Error())
appendParseError(w, e) == Append(w, e)

\* line 205 returning the local result instead of nil
parseErrorReturnResult(res, w) == [result |-> res, warnings |-> w, err |-> ErrParseOutput]

\* line 205: return nil, warnings, ErrParseOutput (res is the local result)
parseErrorReturn(res, w) == [result |-> "nil", warnings |-> w, err |-> ErrParseOutput]

\* lines 209-217 falling through to the filters whatever the message
nextAfterInspectFallThrough(res, msg) == "filter"

\* lines 209-217: where Run goes after looking at the scan-level error message
nextAfterInspect(res, msg) == IF res # "nil" /\ Len(msg) > 0 THEN "done" ELSE "filter"

\* the loop of lines 110-115 looking at the first argument only
hasResumeFirstArg(a) == Len(a) > 0 /\ a[1] = "--resume"

\* lines 110-123: the argument vector of exec.Command
hasResume(a) == \E i \in 1..Len(a) : a[i] = "--resume"
buildArgs(a) == IF hasResume(a) THEN a ELSE a \o <<"--", "-oX", "-">>

\* Run with s.args = append(s.args, ...) in place of the local args
argsAfterRunAccumulate(a) == buildArgs(a)

\* lines 108-123: s.args after Run.  Run copies the slice header into the
\* local args and appends to the copy; s.args is never assigned
argsAfterRun(a) == a

\* lines 117-123: the array of s.args past its length.  An append that fits
\* the capacity writes the array the local args shares with s.args, one that
\* does not moves the local args to an array of its own
spareAfterRun(a, sp) ==
  IF hasResume(a) THEN sp
  ELSE [i \in 1..Len(sp) |-> IF i <= 3 THEN <<"--", "-oX", "-">>[i] ELSE sp[i]]

\* lines 146-148: the open-port counter after one read buffer
countOpen(cnt, tmp) == IF Contains(tmp, OpenMarker) THEN cnt + 1 ELSE cnt

\* Kill never called: the process is left as it is
KillSkipped(p) == p

\* cmd.Process.Kill(): ends a running process, an error (ignored) otherwise
Kill(p) == IF p = "running" THEN "killed" ELSE p

(***************************************************************************)
(* What the external process can print.                                    *)
(***************************************************************************)
RECURSIVE OpenLines(_)
OpenLines(k) == IF k = 0 THEN <<>> ELSE OpenMarker \o OpenLines(k - 1)
Tails ==
  {<<>>, <<InfoDelim, " ", NoPortsNotice>>}
  \cup {<<InfoDelim, " ", XmlDecl, d>> :
          d \in {"<nmaprun ok>", "<nmaprun resolve>", "<nmaprun failed>"}}
Scripts ==
  {OpenLines(k) : k \in 0..MaxOpen}
  \cup {OpenLines(k) \o t : k \in 0..MaxOpenReport, t \in Tails}
StderrSet ==
  {<<>>, <<"Warning: x", NL>>, <<"Warning: x", NL, MallocMarker, " at 0x0", NL>>}
ArgsSet == {<<"-a", "example.test">>, <<"-a", "example.test", "--resume">>}

\* WithTargets: the target follows "-a" in the argument list
Target(a) == a[(CHOOSE i \in 1..(Len(a) - 1) : a[i] = "-a" /\ \A j \in 1..(i - 1) : a[j] # "-a") + 1]

VARIABLES
  args, portFilter, hostFilter, ctxDone,   \* Scanner: s.args, s.portFilter, s.hostFilter, s.ctx
  limit, pc, n, out_tmp, warnings, result, \* Run: parameter, position, locals
  obj,                                     \* the Run object result points to
  waiter, done,                            \* the goroutine of line 163 and its channel
  ret,                                     \* what Run returned
  proc, stdout, closed, stderr, cmdArgs,   \* the external process and its streams
  spawned, reaped, killCalled,             \* process bookkeeping
  script, cancelAt, calls,                 \* history: bytes printed, proc at cancel, steps taken
  before,                                  \* history: obj when a filter was entered
  out,                                     \* Run: the local out []byte of line 191
  spare,                                   \* Scanner: the array of s.args past len(s.args)
  args0                                    \* history: s.args when the scanner was configured

vars == <<args, portFilter, hostFilter, ctxDone, limit, pc, n, out_tmp, warnings,
          result, obj, waiter, done, ret, proc, stdout, closed, stderr, cmdArgs,
          spawned, reaped, killCalled, script, cancelAt, calls, before, out, spare,
          args0>>

scannerVars == <<args, spare, args0, portFilter, hostFilter>>
procIO == <<stdout, closed, stderr>>
NoRet == [result |-> "none", warnings |-> <<>>, err |-> NoErr]
Return(r, w, e) == [result |-> r, warnings |-> w, err |-> e]

Init ==
  /\ args \in ArgsSet
  /\ portFilter \in {"nil", "open"}
  /\ hostFilter \in {"nil", "hasPorts"}
  /\ ctxDone = FALSE
  /\ limit \in 0..MaxLimit
  /\ pc = "start"
  /\ n = 0
  /\ out_tmp = <<>>
  /\ warnings = <<>>
  /\ result = "nil"
  /\ obj = NoObj
  /\ waiter = "none"
  /\ done = 0
  /\ ret = NoRet
  /\ proc = "none"
  /\ script \in Scripts
  /\ stdout = script
  /\ closed = FALSE
  /\ stderr = <<>>
  /\ cmdArgs = <<>>
  /\ spawned = 0
  /\ reaped = FALSE
  /\ killCalled = FALSE
  /\ cancelAt = "never"
  /\ calls = <<>>
  /\ before = NoObj
  /\ out = <<>>
  /\ spare = <<>>
  /\ args0 = args

(***************************************************************************)
(* Scanner.Run                                                             *)
(***************************************************************************)
\* lines 108-134: build the arguments and start the process
Start ==
  /\ pc = "start"
  /\ cmdArgs' = buildArgs(args)
  /\ args' = argsAfterRun(args)
  /\ spare' = spareAfterRun(args, spare)
  /\ proc' = "running"
  /\ spawned' = spawned + 1
  /\ pc' = "read"
  /\ UNCHANGED <<out, before, args0, portFilter, hostFilter, ctxDone, limit, n, out_tmp, warnings, result, obj,
                 waiter, done, ret, procIO, reaped, killCalled, script, cancelAt, calls>>

\* lines 134-137: cmd.Start() fails
StartFail ==
  /\ pc = "start"
  /\ cmdArgs' = buildArgs(args)
  /\ args' = argsAfterRun(args)
  /\ spare' = spareAfterRun(args, spare)
  /\ ret' = Return("nil", warnings, ErrStart)
  /\ pc' = "done"
  /\ UNCHANGED <<out, before, args0, portFilter, hostFilter, ctxDone, limit, n, out_tmp, warnings, result, obj,
                 waiter, done, proc, procIO, spawned, reaped, killCalled, script,
                 cancelAt, calls>>

\* lines 143-148, err == nil: one Read that returns k bytes.  stdout holds the
\* bytes the process prints that Run has not read; before the stream is closed
\* any number of them may have reached the pipe, afterwards all have.
Read(k) ==
  /\ pc = "read"
  /\ k >= 1 /\ k <= Len(stdout) /\ k <= ChunkSize
  /\ closed => (k = Len(stdout) \/ k = ChunkSize)
  /\ LET tmp == ReadBuffer(SubSeq(stdout, 1, k)) IN
       /\ out_tmp' = out_tmp \o tmp
       /\ n' = countOpen(n, tmp)
  /\ stdout' = SubSeq(stdout, k + 1, Len(stdout))
  /\ UNCHANGED <<out, before, scannerVars, ctxDone, limit, pc, warnings, result, obj, waiter, done,
                 ret, proc, closed, stderr, cmdArgs, spawned, reaped, killCalled,
                 script, cancelAt, calls>>

\* lines 143-151, err != nil: the Read that reports end of stream
ReadEOF ==
  /\ pc = "read"
  /\ closed /\ stdout = <<>>
  /\ LET tmp == ReadBuffer(<<>>) IN
       /\ out_tmp' = out_tmp \o tmp
       /\ n' = countOpen(n, tmp)
  /\ pc' = "check"
  /\ UNCHANGED <<out, before, scannerVars, ctxDone, limit, warnings, result, obj, waiter, done, ret,
                 proc, procIO, cmdArgs, spawned, reaped, killCalled, script, cancelAt,
                 calls>>

\* lines 154-159
HeuristicAbort ==
  /\ pc = "check"
  /\ n > limit
  /\ proc' = Kill(proc)
  /\ killCalled' = TRUE
  /\ ret' = Return("nil", warnings, ErrScanCDN)
  /\ pc' = "done"
  /\ UNCHANGED <<out, before, scannerVars, ctxDone, limit, n, out_tmp, warnings, result, obj, waiter,
                 done, procIO, cmdArgs, spawned, reaped, script, cancelAt, calls>>

\* lines 161-165 without the go statement: nothing sends on done
StartWaiterNoGoroutine ==
  /\ pc = "check"
  /\ ~(n > limit)
  /\ pc' = "select"
  /\ UNCHANGED <<out, before, scannerVars, ctxDone, limit, n, out_tmp, warnings, result, obj,
                 waiter, done, ret, proc, procIO, cmdArgs, spawned, reaped, killCalled,
                 script, cancelAt, calls>>

\* lines 161-165: go func() { done <- cmd.Wait() }()
StartWaiter ==
  /\ pc = "check"
  /\ ~(n > limit)
  /\ waiter' = "waiting"
  /\ pc' = "select"
  /\ UNCHANGED <<out, before, scannerVars, ctxDone, limit, n, out_tmp, warnings, result, obj, done,
                 ret, proc, procIO, cmdArgs, spawned, reaped, killCalled, script,
                 cancelAt, calls>>

\* line 164: cmd.Wait() returns once the process has ended; the send cannot
\* block, the channel has room for it
WaiterWait ==
  /\ waiter = "waiting"
  /\ proc \in {"exited", "killed"}
  /\ done < DoneCap
  /\ reaped' = TRUE
  /\ done' = done + 1
  /\ waiter' = "finished"
  /\ UNCHANGED <<out, before, scannerVars, ctxDone, limit, pc, n, out_tmp, warnings, result, obj, ret,
                 proc, procIO, cmdArgs, spawned, killCalled, script, cancelAt, calls>>

\* lines 169-174
SelectTimeout ==
  /\ pc = "select"
  /\ ctxDone
  /\ proc' = Kill(proc)
  /\ killCalled' = TRUE
  /\ ret' = Return("nil", warnings, ErrScanTimeout)
  /\ pc' = "done"
  /\ UNCHANGED <<out, before, scannerVars, ctxDone, limit, n, out_tmp, warnings, result, obj, waiter,
                 done, procIO, cmdArgs, spawned, reaped, script, cancelAt, calls>>

\* line 175
SelectDone ==
  /\ pc = "select"
  /\ done > 0
  /\ done' = done - 1
  /\ pc' = "classify"
  /\ UNCHANGED <<out, before, scannerVars, ctxDone, limit, n, out_tmp, warnings, result, obj, waiter,
                 ret, proc, procIO, cmdArgs, spawned, reaped, killCalled, script,
                 cancelAt, calls>>


\* lines 177-186: collect stderr, classify the warnings
Classify ==
  /\ pc = "classify"
  /\ LET w == splitWarnings(stderr)
         e == analyzeWarnings(w) IN
       /\ warnings' = w
       /\ IF e # NoErr
          THEN /\ ret' = Return("nil", w, e)
               /\ pc' = "done"
          ELSE /\ ret' = ret
               /\ pc' = "parse"
  /\ calls' = Append(calls, "analyzeWarnings")
  /\ UNCHANGED <<out, before, scannerVars, ctxDone, limit, n, out_tmp, result, obj, waiter,
                 done, proc, procIO, cmdArgs, spawned, reaped, killCalled, script,
                 cancelAt>>

\* lines 191-206: extract the payload and parse it
ParseOutput ==
  /\ pc = "parse"
  /\ out' = extractOut(out_tmp)
  /\ LET p == Parse(out') IN
       IF p.err # NoErr
       THEN /\ warnings' = appendParseError(warnings, p.err)
            /\ ret' = parseErrorReturn("obj", warnings')
            /\ pc' = "done"
            /\ UNCHANGED <<result, obj>>
       ELSE /\ result' = "obj"
            /\ obj' = p.run
            /\ pc' = "inspect"
            /\ UNCHANGED <<warnings, ret>>
  /\ calls' = Append(calls, "Parse")
  /\ UNCHANGED <<before, scannerVars, ctxDone, limit, n, out_tmp, waiter, done, proc,
                 procIO, cmdArgs, spawned, reaped, killCalled, script, cancelAt>>

\* lines 208-217: critical scan errors reflected in the XML
InspectErrorMsg ==
  /\ pc = "inspect"
  /\ IF result # "nil" /\ Len(obj.ErrorMsg) > 0
     THEN /\ ret' = Return(result, warnings,
                      IF Contains(obj.ErrorMsg, <<ResolveMarker>>)
                      THEN ErrResolveName ELSE Errorf(obj.ErrorMsg))
     ELSE ret' = ret
  /\ pc' = nextAfterInspect(result, obj.ErrorMsg)
  /\ calls' = Append(calls, "ErrorMsg")
  /\ UNCHANGED <<out, before, scannerVars, ctxDone, limit, n, out_tmp, warnings, result, obj,
                 waiter, done, proc, procIO, cmdArgs, spawned, reaped, killCalled,
                 script, cancelAt>>

\* lines 219-228: call the filters that are set, return the result
ApplyFilters ==
  /\ pc = "filter"
  /\ LET o1 == IF portFilter # "nil" THEN choosePorts(obj, portFilter) ELSE obj
         o2 == IF hostFilter # "nil" THEN chooseHosts(o1, hostFilter) ELSE o1 IN
       obj' = o2
  /\ before' = obj
  /\ calls' = calls \o (IF portFilter # "nil" THEN <<"choosePorts">> ELSE <<>>)
                    \o (IF hostFilter # "nil" THEN <<"chooseHosts">> ELSE <<>>)
  /\ ret' = Return(result, warnings, NoErr)
  /\ pc' = "done"
  /\ UNCHANGED <<out, scannerVars, ctxDone, limit, n, out_tmp, warnings, result, waiter, done,
                 proc, procIO, cmdArgs, spawned, reaped, killCalled, script, cancelAt>>

(***************************************************************************)
(* The environment of Run: the external process and the caller's context.  *)
(***************************************************************************)
\* the process closes its standard output
ProcClose ==
  /\ proc = "running"
  /\ ~closed
  /\ closed' = TRUE
  /\ UNCHANGED <<out, before, scannerVars, ctxDone, limit, pc, n, out_tmp, warnings, result,
                 obj, waiter, done, ret, proc, stdout, stderr, cmdArgs, spawned, reaped,
                 killCalled, script, cancelAt, calls>>

\* the process exits, having written e to its standard error
ProcExit(e) ==
  /\ proc = "running"
  /\ proc' = "exited"
  /\ closed' = TRUE
  /\ stderr' = e
  /\ UNCHANGED <<out, before, scannerVars, ctxDone, limit, pc, n, out_tmp, warnings, result,
                 obj, waiter, done, ret, stdout, cmdArgs, spawned, reaped, killCalled,
                 script, cancelAt, calls>>

\* the caller's context is cancelled or its deadline passes
Cancel ==
  /\ ~ctxDone
  /\ pc # "done"
  /\ ctxDone' = TRUE
  /\ cancelAt' = proc
  /\ UNCHANGED <<out, before, scannerVars, limit, pc, n, out_tmp, warnings, result, obj, waiter,
                 done, ret, proc, procIO, cmdArgs, spawned, reaped, killCalled, script,
                 calls>>

Next ==
  \/ Start
  \/ StartFail
  \/ \E k \in 1..ChunkSize : Read(k)
  \/ ReadEOF
  \/ HeuristicAbort
  \/ StartWaiter
  \/ WaiterWait
  \/ SelectTimeout
  \/ SelectDone
  \/ Classify
  \/ ParseOutput
  \/ InspectErrorMsg
  \/ ApplyFilters
  \/ ProcClose
  \/ \E e \in StderrSet : ProcExit(e)
  \/ Cancel

Spec == Init /\ [][Next]_vars


(***************************************************************************)
(* Properties of Run.                                                      *)
(***************************************************************************)
\* number of occurrences of sub in s
Occurrences(s, sub) ==
  Cardinality({i \in 1..(Len(s) - Len(sub) + 1) : SubSeq(s, i, i + Len(sub) - 1) = sub})

\* Run has left the streaming phase and the check of line 154
PastAbortCheck == spawned = 1 /\ pc \notin {"start", "read", "check"}
\* the exit branch of the select was taken
ExitBranchTaken == Len(calls) > 0
InCalls(c) == \E i \in 1..Len(calls) : calls[i] = c

\* C1: if the process prints more than limit "Open " markers on stdout before
\* the stream ends, Run kills it and returns (nil, nil, ErrScanCDN), however
\* the stream is cut into reads.
C1_AbortAboveLimit ==
  (PastAbortCheck /\ Occurrences(script, OpenMarker) > limit)
    => /\ pc = "done"
       /\ ret = Return("nil", <<>>, ErrScanCDN)
       /\ proc # "running"

\* C2: at most limit markers, nothing on stderr, the process exits, stdout
\* carries a well-formed report with an empty error message, the context is
\* never cancelled (and no filter is set): Run returns that report, nil
\* warnings and a nil error.
GoodPayload == <<InfoDelim, " ", XmlDecl, "<nmaprun ok>">>
CarriesGoodPayload ==
  /\ Len(script) >= Len(GoodPayload)
  /\ SubSeq(script, Len(script) - Len(GoodPayload) + 1, Len(script)) = GoodPayload
C2_ReportReturned ==
  ( /\ pc = "done" /\ spawned = 1
    /\ Occurrences(script, OpenMarker) <= limit
    /\ proc = "exited" /\ stderr = <<>>
    /\ CarriesGoodPayload
    /\ cancelAt = "never"
    /\ portFilter = "nil" /\ hostFilter = "nil" )
    => /\ ret = Return("obj", <<>>, NoErr)
       /\ obj = Documents["<nmaprun ok>"]

\* C3: the context is cancelled before the process has exited, at whatever
\* point of a Run that reaches the completion phase: Run returns
\* ErrScanTimeout with a nil report and the process is not running.
C3_CancelBeforeExit ==
  (pc = "done" /\ spawned = 1 /\ waiter # "none" /\ cancelAt \in {"none", "running"})
    => /\ ret.err = ErrScanTimeout
       /\ ret.result = "nil"
       /\ proc # "running"

\* C4: the context is cancelled only after the process has exited: Run never
\* returns ErrScanTimeout.
C4_CancelAfterExit ==
  (pc = "done" /\ cancelAt = "exited") => ret.err # ErrScanTimeout

\* C5 as claimed: on every return after a successful spawn one process was
\* spawned, it was waited on to completion or killed, and no exit-status wait
\* is pending.
C5_NoWaitPending ==
  (pc = "done" /\ spawned >= 1)
    => /\ spawned = 1
       /\ (reaped \/ killCalled)
       /\ waiter # "waiting"

\* C5 as amended: on every return after a successful spawn one process was
\* spawned, it was waited on to completion or killed and is not running; an
\* exit-status wait is pending at the return only when Run returns
\* ErrScanTimeout, and then on a process that Run has killed.
C5_WaitedOrKilled ==
  (pc = "done" /\ spawned >= 1)
    => /\ spawned = 1
       /\ (reaped \/ killCalled)
       /\ proc # "running"
       /\ (waiter = "waiting" => (ret.err = ErrScanTimeout /\ killCalled))
       /\ (ret.err = ErrScanCDN => waiter = "none")
C5_Witness ==
  pc = "done" /\ ret.err = ErrScanTimeout /\ waiter = "waiting" /\ proc = "killed"

\* C6: the exit branch is taken and a stderr line contains "Malloc Failed!":
\* Run returns a nil report, warnings holding that line, ErrMallocFailed, and
\* the parser is not invoked.
C6_MallocFailed ==
  ( /\ pc = "done" /\ ExitBranchTaken
    /\ \E i \in 1..Len(stderr) : stderr[i] = MallocMarker )
    => /\ ret.result = "nil"
       /\ ret.err = ErrMallocFailed
       /\ \E i \in 1..Len(ret.warnings) :
            /\ Contains(ret.warnings[i], <<MallocMarker>>)
            /\ Contains(stderr, ret.warnings[i])
       /\ ~InCalls("Parse")
C6_Witness ==
  /\ pc = "done" /\ ExitBranchTaken
  /\ ret.err = ErrMallocFailed
  /\ \E i \in 1..Len(stderr) : stderr[i] = MallocMarker

\* C7: a non-nil report comes with a non-nil error only for a scan-level
\* failure read from the parsed report's error message (ErrResolveName, or
\* the error made of that message); every other error return has a nil report.
C7_ReportWithError ==
  pc = "done" =>
    /\ (ret.result # "nil" /\ ret.err # NoErr) =>
         /\ InCalls("Parse") /\ Parse(extractOut(out_tmp)).err = NoErr
         /\ obj = Parse(extractOut(out_tmp)).run
         /\ Len(obj.ErrorMsg) > 0
         /\ IF Contains(obj.ErrorMsg, <<ResolveMarker>>)
            THEN ret.err = ErrResolveName
            ELSE ret.err = Errorf(obj.ErrorMsg)
    /\ (ret.err \in {ErrStart, ErrScanCDN, ErrScanTimeout, ErrMallocFailed, ErrParseOutput}
          => ret.result = "nil")
    /\ (spawned = 0 \/ ~ExitBranchTaken \/ ~InCalls("ErrorMsg")) => ret.result = "nil"
C7_Witness ==
  /\ pc = "done" /\ ret.result = "obj"
  /\ ret.err = Errorf(<<"scan aborted">>)
  /\ obj.ErrorMsg = <<"scan aborted">>

\* C8: when the parser fails Run returns a nil report and ErrParseOutput, and
\* the warnings are those derived from stderr followed by the parser's error
\* text.
C8_ParseErrorKept ==
  (pc = "done" /\ InCalls("Parse") /\ Parse(extractOut(out_tmp)).err # NoErr)
    => /\ ret.result = "nil"
       /\ ret.err = ErrParseOutput
       /\ Len(ret.warnings) = Len(splitWarnings(stderr)) + 1
       /\ SubSeq(ret.warnings, 1, Len(ret.warnings) - 1) = splitWarnings(stderr)
       /\ ret.warnings[Len(ret.warnings)] = Parse(extractOut(out_tmp)).err
C8_Witness ==
  /\ pc = "done" /\ ret.err = ErrParseOutput
  /\ Len(ret.warnings) = 2
  /\ ret.warnings[2] = <<"XML syntax error">>

\* C9: in one Run classification precedes any call of the parser, the error
\* message is inspected only after a successful parse, the filters run only
\* after a successful parse with an empty error message and never on a run
\* that returns an error.
C9_StepOrder ==
  /\ \A i \in 1..Len(calls) :
       /\ calls[i] = "Parse" => \E j \in 1..(i - 1) : calls[j] = "analyzeWarnings"
       /\ calls[i] = "ErrorMsg" =>
            /\ \E j \in 1..(i - 1) : calls[j] = "Parse"
            /\ Parse(extractOut(out_tmp)).err = NoErr
       /\ calls[i] \in {"choosePorts", "chooseHosts"} =>
            /\ \E j \in 1..(i - 1) : calls[j] = "ErrorMsg"
            /\ Parse(extractOut(out_tmp)).err = NoErr
            /\ Parse(extractOut(out_tmp)).run.ErrorMsg = <<>>
            /\ pc = "done" /\ ret.err = NoErr
  /\ (InCalls("analyzeWarnings") /\ analyzeWarnings(splitWarnings(stderr)) # NoErr)
       => ~InCalls("Parse")
C9_Witness ==
  /\ pc = "done"
  /\ calls = <<"analyzeWarnings", "Parse", "ErrorMsg", "choosePorts", "chooseHosts">>


(***************************************************************************)
(* The filters called on their own: chooseHosts(r, p) and choosePorts(r, p)*)
(* for a report r drawn from a bounded set.  obj is the object r points    *)
(* to, before is that object when the call was made, result the pointer    *)
(* the call returned.                                                      *)
(***************************************************************************)
SeqsUpTo(S, len) == UNION {[1..k -> S] : k \in 0..len}
PortPool == {Port(80, "open"), Port(443, "closed")}
HostPool == {Host(a, ps) : a \in {"a.test", "b.test"}, ps \in SeqsUpTo(PortPool, MaxPorts)}
ReportPool == {Report(hs, 25, <<>>) : hs \in SeqsUpTo(HostPool, MaxHosts)}

FilterInit ==
  /\ args = <<>>
  /\ portFilter = "nil"
  /\ hostFilter = "nil"
  /\ ctxDone = FALSE
  /\ limit = 0
  /\ pc = "filterCall"
  /\ n = 0
  /\ out_tmp = <<>>
  /\ warnings = <<>>
  /\ result = "nil"
  /\ obj \in ReportPool
  /\ waiter = "none"
  /\ done = 0
  /\ ret = NoRet
  /\ proc = "none"
  /\ script = <<>>
  /\ stdout = <<>>
  /\ closed = FALSE
  /\ stderr = <<>>
  /\ cmdArgs = <<>>
  /\ spawned = 0
  /\ reaped = FALSE
  /\ killCalled = FALSE
  /\ cancelAt = "never"
  /\ calls = <<>>
  /\ before = obj
  /\ out = <<>>
  /\ spare = <<>>
  /\ args0 = args

\* result = chooseHosts(r, f)
CallChooseHosts(f) ==
  /\ pc = "filterCall"
  /\ before' = obj
  /\ obj' = chooseHosts(obj, f)
  /\ result' = "obj"
  /\ hostFilter' = f
  /\ calls' = Append(calls, "chooseHosts")
  /\ pc' = "filterDone"
  /\ UNCHANGED <<out, args, spare, args0, portFilter, ctxDone, limit, n, out_tmp, warnings, waiter, done, ret,
                 proc, procIO, cmdArgs, spawned, reaped, killCalled, script, cancelAt>>

\* result = choosePorts(r, f)
CallChoosePorts(f) ==
  /\ pc = "filterCall"
  /\ before' = obj
  /\ obj' = choosePorts(obj, f)
  /\ result' = "obj"
  /\ portFilter' = f
  /\ calls' = Append(calls, "choosePorts")
  /\ pc' = "filterDone"
  /\ UNCHANGED <<out, args, spare, args0, hostFilter, ctxDone, limit, n, out_tmp, warnings, waiter, done, ret,
                 proc, procIO, cmdArgs, spawned, reaped, killCalled, script, cancelAt>>

\* chooseHosts(result, f) called on the report a first chooseHosts(r, f) returned
CallChooseHostsAgain ==
  /\ pc = "filterDone" /\ calls = <<"chooseHosts">>
  /\ before' = obj
  /\ obj' = chooseHosts(obj, hostFilter)
  /\ calls' = Append(calls, "chooseHosts")
  /\ pc' = "filterTwice"
  /\ UNCHANGED <<out, scannerVars, result, ctxDone, limit, n, out_tmp, warnings, waiter,
                 done, ret, proc, procIO, cmdArgs, spawned, reaped, killCalled, script,
                 cancelAt>>

\* choosePorts(result, f) called on the report a first choosePorts(r, f) returned
CallChoosePortsAgain ==
  /\ pc = "filterDone" /\ calls = <<"choosePorts">>
  /\ before' = obj
  /\ obj' = choosePorts(obj, portFilter)
  /\ calls' = Append(calls, "choosePorts")
  /\ pc' = "filterTwice"
  /\ UNCHANGED <<out, scannerVars, result, ctxDone, limit, n, out_tmp, warnings, waiter,
                 done, ret, proc, procIO, cmdArgs, spawned, reaped, killCalled, script,
                 cancelAt>>

FilterNext ==
  \/ \E f \in HostFilters : CallChooseHosts(f)
  \/ \E f \in PortFilters : CallChoosePorts(f)
  \/ CallChooseHostsAgain
  \/ CallChoosePortsAgain

SpecFilter == FilterInit /\ [][FilterNext]_vars

HostsCalled == pc = "filterDone" /\ calls = <<"chooseHosts">>
PortsCalled == pc = "filterDone" /\ calls = <<"choosePorts">>

\* C10 as claimed: after chooseHosts(r, p) or choosePorts(r, p) the host
\* sequence of r and the port sequence of every host of r are as before the
\* call.
C10_InputUnchanged ==
  pc = "filterDone" => obj.Hosts = before.Hosts

\* C10 as amended: each filter returns its input report, updated in place.
\* After chooseHosts(r, p) the hosts of r are the hosts it had that satisfy p,
\* in order, each with its ports as before; after choosePorts(r, p) r has the
\* same hosts in the same order, the ports of each being those it had that
\* satisfy p.  The sequences of r are as before the call exactly when every
\* entry satisfied p; the statistics of r are untouched.
C10_InputFilteredInPlace ==
  /\ pc = "filterDone" =>
       /\ result = "obj"
       /\ obj.Elapsed = before.Elapsed /\ obj.ErrorMsg = before.ErrorMsg
  /\ HostsCalled =>
       /\ obj.Hosts = SelectSeq(before.Hosts, LAMBDA h : hostPred(hostFilter, h))
       /\ (obj.Hosts = before.Hosts) <=>
            (\A i \in 1..Len(before.Hosts) : hostPred(hostFilter, before.Hosts[i]))
  /\ PortsCalled =>
       /\ Len(obj.Hosts) = Len(before.Hosts)
       /\ \A i \in 1..Len(before.Hosts) :
            /\ obj.Hosts[i].Addr = before.Hosts[i].Addr
            /\ obj.Hosts[i].Ports =
                 SelectSeq(before.Hosts[i].Ports, LAMBDA q : portPred(portFilter, q))
       /\ (obj.Hosts = before.Hosts) <=>
            (\A i \in 1..Len(before.Hosts) : \A j \in 1..Len(before.Hosts[i].Ports) :
               portPred(portFilter, before.Hosts[i].Ports[j]))
C10_Witness ==
  /\ PortsCalled
  /\ Len(before.Hosts) = 2
  /\ obj.Hosts # before.Hosts
  /\ \E i \in 1..Len(obj.Hosts) : Len(obj.Hosts[i].Ports) = 1 /\ Len(before.Hosts[i].Ports) = 2

\* s is t with entries left out, the rest in the order of t
RECURSIVE IsSubsequence(_, _)
IsSubsequence(s, t) ==
  IF s = <<>> THEN TRUE
  ELSE IF t = <<>> THEN FALSE
  ELSE IF Head(s) = Head(t) THEN IsSubsequence(Tail(s), Tail(t))
  ELSE IsSubsequence(s, Tail(t))
\* the entries of s kept by a filter: all satisfy the predicate Sat (a set),
\* none that satisfies it is lost, and the order is that of s
KeptOf(kept, s, Sat) ==
  /\ IsSubsequence(kept, s)
  /\ \A i \in 1..Len(kept) : kept[i] \in Sat
  /\ Len(kept) = Cardinality({i \in 1..Len(s) : s[i] \in Sat})

\* C11: for every report and predicate the hosts chooseHosts leaves are the
\* input hosts that satisfy the predicate, in their order (choosePorts: the
\* same for the ports of every host); with an always-true predicate the report
\* equals the input, with an always-false one the filtered sequences are
\* empty, and a second call with the same predicate changes nothing.
C11_FilterAlgebra ==
  /\ HostsCalled =>
       /\ KeptOf(obj.Hosts, before.Hosts, {h \in HostPool : hostPred(hostFilter, h)})
       /\ hostFilter = "all" => obj = before
       /\ hostFilter = "none" => obj.Hosts = <<>>
  /\ PortsCalled =>
       /\ Len(obj.Hosts) = Len(before.Hosts)
       /\ \A i \in 1..Len(before.Hosts) :
            /\ KeptOf(obj.Hosts[i].Ports, before.Hosts[i].Ports,
                      {q \in PortPool : portPred(portFilter, q)})
            /\ portFilter = "none" => obj.Hosts[i].Ports = <<>>
       /\ portFilter = "all" => obj = before
  /\ pc = "filterTwice" => obj = before
C11_Witness ==
  /\ pc = "filterTwice" /\ calls = <<"chooseHosts", "chooseHosts">>
  /\ hostFilter = "hasPorts"
  /\ Len(obj.Hosts) = 1
  /\ obj = before

(***************************************************************************)
(* Properties of the output handling of Run.                               *)
(***************************************************************************)
\* C12: the payload Structure() returns describes, for any scan target, one
\* host whose address is the target string of the scan, with one port whose
\* state is closed, and an elapsed time of zero.
C12_StructureDescribesTarget ==
  (pc = "inspect" /\ out = Structure)
    => /\ Len(obj.Hosts) = 1
       /\ obj.Hosts[1].Addr = Target(args)
       /\ Len(obj.Hosts[1].Ports) = 1
       /\ obj.Hosts[1].Ports[1].State = "closed"
       /\ obj.Elapsed = 0

(***************************************************************************)
(* analyzeWarnings called on its own, for a bounded set of warning lists.  *)
(* warnings is the argument, ret.err the error returned.                   *)
(***************************************************************************)
WarningLines ==
  {<<>>, <<"Warning: x">>, <<"malloc failed">>, <<MallocMarker>>,
   <<"fatal: ", MallocMarker, " at 0x0">>}

WarnInit ==
  /\ args = <<>>
  /\ portFilter = "nil"
  /\ hostFilter = "nil"
  /\ ctxDone = FALSE
  /\ limit = 0
  /\ pc = "warnCall"
  /\ n = 0
  /\ out_tmp = <<>>
  /\ warnings \in SeqsUpTo(WarningLines, MaxWarnings)
  /\ result = "nil"
  /\ obj = NoObj
  /\ waiter = "none"
  /\ done = 0
  /\ ret = NoRet
  /\ proc = "none"
  /\ script = <<>>
  /\ stdout = <<>>
  /\ closed = FALSE
  /\ stderr = <<>>
  /\ cmdArgs = <<>>
  /\ spawned = 0
  /\ reaped = FALSE
  /\ killCalled = FALSE
  /\ cancelAt = "never"
  /\ calls = <<>>
  /\ before = NoObj
  /\ out = <<>>
  /\ spare = <<>>
  /\ args0 = args

\* err = analyzeWarnings(warnings)
CallAnalyzeWarnings ==
  /\ pc = "warnCall"
  /\ ret' = Return("nil", warnings, analyzeWarnings(warnings))
  /\ calls' = Append(calls, "analyzeWarnings")
  /\ pc' = "warnDone"
  /\ UNCHANGED <<out, before, scannerVars, ctxDone, limit, n, out_tmp, warnings, result,
                 obj, waiter, done, proc, procIO, cmdArgs, spawned, reaped, killCalled,
                 script, cancelAt>>

WarnNext == CallAnalyzeWarnings

SpecWarn == WarnInit /\ [][WarnNext]_vars

\* the orders the lines of w can be given in
Reorderings(w) ==
  {[i \in 1..Len(w) |-> w[p[i]]] :
     p \in {q \in [1..Len(w) -> 1..Len(w)] : \A i, j \in 1..Len(w) : q[i] = q[j] => i = j}}
\* the marker stands somewhere in some line
SomeLineHasMarker(w) ==
  \E i \in 1..Len(w) : \E j \in 1..Len(w[i]) : w[i][j] = MallocMarker

\* C13: analyzeWarnings returns ErrMallocFailed exactly when some line of its
\* input contains "Malloc Failed!", wherever that line stands and in whatever
\* order the lines are given; it returns nil otherwise.
C13_MallocIffSomeLine ==
  pc = "warnDone" =>
    /\ ret.err = (IF SomeLineHasMarker(warnings) THEN ErrMallocFailed ELSE NoErr)
    /\ \A v \in Reorderings(warnings) : analyzeWarnings(v) = ret.err
C13_Witness ==
  /\ pc = "warnDone"
  /\ Len(warnings) = 3
  /\ ~Contains(warnings[1], <<MallocMarker>>)
  /\ ~Contains(warnings[2], <<MallocMarker>>)
  /\ warnings[3] = <<"fatal: ", MallocMarker, " at 0x0">>
  /\ ret.err = ErrMallocFailed

\* C14: the argument vector given to the spawned process is the configured
\* arguments as they are when one of them is "--resume", and otherwise the
\* configured arguments followed by exactly "--", "-oX", "-".
C14_SpawnArguments ==
  spawned = 1 =>
    IF \E i \in 1..Len(args0) : args0[i] = "--resume"
    THEN cmdArgs = args0
    ELSE /\ Len(cmdArgs) = Len(args0) + 3
         /\ SubSeq(cmdArgs, 1, Len(args0)) = args0
         /\ SubSeq(cmdArgs, Len(args0) + 1, Len(cmdArgs)) = <<"--", "-oX", "-">>
C14_Witness ==
  /\ spawned = 1
  /\ args0 = <<"-a", "example.test", "--resume">>
  /\ cmdArgs = <<"-a", "example.test", "--resume">>

\* C15: the abort is immediate: once the running count of chunks holding
\* "Open " exceeds the limit Run reads no further chunk (it kills the process
\* and returns before the end of the stream is read).
C15_AbortImmediately ==
  [][n > limit => out_tmp' = out_tmp]_vars

\* C16: when the streaming phase ends the accumulation buffer is the
\* concatenation, in order, of exactly the bytes the process wrote to stdout,
\* nothing added, dropped or padded, however the bytes came in reads of at
\* most the chunk size, short reads and the end-of-stream read included.
C16_BufferIsStream ==
  (spawned = 1 /\ pc \notin {"start", "read"}) => out_tmp = script

(***************************************************************************)
(* The extraction of lines 191-200 on its own, for a bounded set of        *)
(* accumulated texts.  out_tmp is the text, out the bytes for the parser.  *)
(***************************************************************************)
TextSymbols == {InfoDelim, " ", XmlDecl, "<nmaprun ok>", NoPortsNotice, NUL}
\* what the loop of lines 142-152 can leave in out_tmp: the bytes read, with
\* the padding of short reads, then the buffer of the read that reported EOF
Texts == {t \o ReadBuffer(<<>>) : t \in SeqsUpTo(TextSymbols, MaxText)}

ExtractInit ==
  /\ args = <<>>
  /\ portFilter = "nil"
  /\ hostFilter = "nil"
  /\ ctxDone = FALSE
  /\ limit = 0
  /\ pc = "extractCall"
  /\ n = 0
  /\ out_tmp \in Texts
  /\ warnings = <<>>
  /\ result = "nil"
  /\ obj = NoObj
  /\ waiter = "none"
  /\ done = 0
  /\ ret = NoRet
  /\ proc = "none"
  /\ script = <<>>
  /\ stdout = <<>>
  /\ closed = FALSE
  /\ stderr = <<>>
  /\ cmdArgs = <<>>
  /\ spawned = 0
  /\ reaped = FALSE
  /\ killCalled = FALSE
  /\ cancelAt = "never"
  /\ calls = <<>>
  /\ before = NoObj
  /\ out = <<>>
  /\ spare = <<>>
  /\ args0 = args

\* lines 191-200
Extract ==
  /\ pc = "extractCall"
  /\ out' = extractOut(out_tmp)
  /\ pc' = "extractDone"
  /\ UNCHANGED <<before, scannerVars, ctxDone, limit, n, out_tmp, warnings, result, obj,
                 waiter, done, ret, proc, procIO, cmdArgs, spawned, reaped, killCalled,
                 script, cancelAt, calls>>

ExtractNext == Extract

SpecExtract == ExtractInit /\ [][ExtractNext]_vars

\* positions of the text: delimiters, tokens, notices
DelimAt == {i \in 1..Len(out_tmp) : out_tmp[i] = InfoDelim}
TokenAt == {i \in 1..Len(out_tmp) : out_tmp[i] = XmlDecl}
NoticeAt == {i \in 1..Len(out_tmp) : out_tmp[i] = NoPortsNotice}
Max(S) == CHOOSE x \in S : \A y \in S : y <= x
Min(S) == CHOOSE x \in S : \A y \in S : x <= y
\* the last token or notice of the text, and the delimiters around it
LastMark == Max(TokenAt \cup NoticeAt)
SegLeft == Max({0} \cup {d \in DelimAt : d < LastMark})
SegRight == Min({Len(out_tmp) + 1} \cup {d \in DelimAt : d > LastMark})
TokenInLastSeg == \E x \in TokenAt : SegLeft < x /\ x < SegRight

\* C17 as claimed: when the accumulated stdout contains "<?xml " the bytes
\* handed to the parser begin at the token: all that precedes it is removed
\* and no byte of the payload is.
C17_PayloadFromToken ==
  (pc = "extractDone" /\ TokenAt # {})
    => out = SubSeq(out_tmp, Min(TokenAt), Len(out_tmp))

\* C17 as amended: when the accumulated stdout contains "<?xml ", the parser
\* is handed the last "[~]"-delimited segment that holds the token or the
\* notice, less its first byte, if that segment holds the token, and the
\* synthesized payload if it holds the notice alone.  The bytes handed begin
\* at the token exactly when the token is the second byte of that segment;
\* text between the delimiter and the token is kept, text from the next
\* delimiter on is dropped.
C17_LastSegmentLessOneByte ==
  (pc = "extractDone" /\ TokenAt # {})
    => /\ TokenInLastSeg => out = SubSeq(out_tmp, SegLeft + 2, SegRight - 1)
       /\ ~TokenInLastSeg => out = Structure
       /\ (out = SubSeq(out_tmp, Min(TokenAt), Len(out_tmp)))
            => (TokenInLastSeg /\ Min(TokenAt) = SegLeft + 2 /\ SegRight = Len(out_tmp) + 1)
C17_Witness ==
  /\ pc = "extractDone"
  /\ out_tmp = <<InfoDelim, " ", XmlDecl, "<nmaprun ok>">> \o ReadBuffer(<<>>)
  /\ out = <<XmlDecl, "<nmaprun ok>">> \o ReadBuffer(<<>>)

\* C18 as claimed: whenever the accumulated stdout contains the "no open
\* ports" notice the parser is handed the synthesized payload; and the parser
\* is always handed a payload taken from stdout or the synthesized one, never
\* an empty input.
C18_NoticeGivesStructure ==
  pc = "extractDone" =>
    /\ NoticeAt # {} => out = Structure
    /\ out # <<>>

\* C18 as amended: when the accumulated stdout contains the notice, the
\* parser is handed the synthesized payload if the last "[~]"-delimited
\* segment that holds the token or the notice holds the notice and not the
\* token; a notice in a segment that also holds the token, or followed by a
\* later segment with the token, is passed over and the parser is handed
\* that segment less its first byte.  When stdout holds neither the token
\* nor the notice the parser is handed an empty input.
C18_NoticeInLastSegment ==
  pc = "extractDone" =>
    /\ (TokenAt \cup NoticeAt = {}) => out = <<>>
    /\ (NoticeAt # {} /\ ~TokenInLastSeg) => out = Structure
    /\ (NoticeAt # {} /\ TokenInLastSeg)
         => (out = SubSeq(out_tmp, SegLeft + 2, SegRight - 1) /\ out # Structure)
C18_Witness ==
  /\ pc = "extractDone"
  /\ out_tmp = <<InfoDelim, " ", NoPortsNotice, NUL>> \o ReadBuffer(<<>>)
  /\ out = Structure

(***************************************************************************)
(* Run under fair scheduling.  The goroutine that runs Run takes its next  *)
(* step whenever one stays possible (a Read blocks while the pipe is empty *)
(* and open, the select while neither channel is ready), and so does the   *)
(* goroutine of line 163.  Nothing is assumed of the process or of the     *)
(* caller's context.                                                       *)
(***************************************************************************)
LiveScripts == {OpenLines(k) : k \in 0..MaxOpenReport} \cup Tails

LiveInit ==
  /\ args = <<"-a", "example.test">>
  /\ portFilter = "open"
  /\ hostFilter = "hasPorts"
  /\ ctxDone = FALSE
  /\ limit \in 0..MaxLimit
  /\ pc = "start"
  /\ n = 0
  /\ out_tmp = <<>>
  /\ warnings = <<>>
  /\ result = "nil"
  /\ obj = NoObj
  /\ waiter = "none"
  /\ done = 0
  /\ ret = NoRet
  /\ proc = "none"
  /\ script \in LiveScripts
  /\ stdout = script
  /\ closed = FALSE
  /\ stderr = <<>>
  /\ cmdArgs = <<>>
  /\ spawned = 0
  /\ reaped = FALSE
  /\ killCalled = FALSE
  /\ cancelAt = "never"
  /\ calls = <<>>
  /\ before = NoObj
  /\ out = <<>>
  /\ spare = <<>>
  /\ args0 = args

\* the steps of the goroutine that called Run
RunStep ==
  \/ Start
  \/ StartFail
  \/ \E k \in 1..ChunkSize : Read(k)
  \/ ReadEOF
  \/ HeuristicAbort
  \/ StartWaiter
  \/ SelectTimeout
  \/ SelectDone
  \/ Classify
  \/ ParseOutput
  \/ InspectErrorMsg
  \/ ApplyFilters

SpecLive == LiveInit /\ [][Next]_vars /\ WF_vars(RunStep) /\ WF_vars(WaiterWait)

\* the outcomes of a Run that has returned
Outcomes ==
  {o \in {"abort", "timeout", "classifier", "parse", "scan", "success"} :
     CASE o = "abort" -> ret.err = ErrScanCDN /\ ret.result = "nil"
       [] o = "timeout" -> ret.err = ErrScanTimeout /\ ret.result = "nil"
       [] o = "classifier" -> ret.err = ErrMallocFailed /\ ret.result = "nil"
       [] o = "parse" -> ret.err = ErrParseOutput /\ ret.result = "nil"
       [] o = "scan" -> /\ ret.result = "obj" /\ ret.err # NoErr
                        /\ ret.err \notin {ErrScanCDN, ErrScanTimeout, ErrMallocFailed,
                                            ErrParseOutput, ErrStart}
       [] o = "success" -> ret.err = NoErr /\ ret.result = "obj"}
Returned == pc = "done" /\ Cardinality(Outcomes) = 1

\* C19: on every execution in which stdout reaches its end and, after that,
\* the process exits or the context is cancelled, Run returns, with exactly
\* one of the outcomes heuristic abort, timeout, classifier error, parse
\* error, scan-level error and success.
C19_RunReturns ==
  (<>(closed /\ <>(proc \in {"exited", "killed"} \/ ctxDone))) => <>Returned
C19_Witness ==
  /\ Returned
  /\ Outcomes = {"success"}
  /\ closed /\ proc = "exited" /\ waiter = "finished"

(***************************************************************************)
(* Run called repeatedly on one scanner, as far as the scanner's argument  *)
(* list goes: lines 108-126.  The rest of Run assigns no field of the      *)
(* Scanner.  args is s.args, spare the slots of its array past its length  *)
(* (an append within capacity writes there), cmdArgs the vector of the     *)
(* last spawn, spawned the number of calls.                                *)
(***************************************************************************)
ArgSymbols == {"-a", "example.test", "--resume"}

ArgsInit ==
  /\ args \in SeqsUpTo(ArgSymbols, MaxArgs)
  /\ portFilter = "nil"
  /\ hostFilter = "nil"
  /\ ctxDone = FALSE
  /\ limit = 0
  /\ pc = "idle"
  /\ n = 0
  /\ out_tmp = <<>>
  /\ warnings = <<>>
  /\ result = "nil"
  /\ obj = NoObj
  /\ waiter = "none"
  /\ done = 0
  /\ ret = NoRet
  /\ proc = "none"
  /\ script = <<>>
  /\ stdout = <<>>
  /\ closed = FALSE
  /\ stderr = <<>>
  /\ cmdArgs = <<>>
  /\ spawned = 0
  /\ reaped = FALSE
  /\ killCalled = FALSE
  /\ cancelAt = "never"
  /\ calls = <<>>
  /\ before = NoObj
  /\ out = <<>>
  /\ spare \in {[i \in 1..k |-> ""] : k \in 0..MaxSpare}
  /\ args0 = args

\* one more call of Run: lines 108-126
RunCall ==
  /\ pc = "idle"
  /\ spawned < MaxRuns
  /\ cmdArgs' = buildArgs(args)
  /\ args' = argsAfterRun(args)
  /\ spare' = spareAfterRun(args, spare)
  /\ spawned' = spawned + 1
  /\ UNCHANGED <<out, before, args0, portFilter, hostFilter, ctxDone, limit, pc, n, out_tmp,
                 warnings, result, obj, waiter, done, ret, proc, procIO, reaped,
                 killCalled, script, cancelAt, calls>>

ArgsNext == RunCall

SpecArgs == ArgsInit /\ [][ArgsNext]_vars

\* Args(): return s.args
Args == args

\* C20: Run leaves the scanner's configured argument list unchanged: after any
\* number of calls Args() returns the sequence it returned before the first,
\* so every Run of a scanner without "--resume" spawns with the configured
\* arguments plus one "--", "-oX", "-", never more.
C20_ArgsUnchanged ==
  /\ Args = args0
  /\ (spawned >= 1 /\ \A i \in 1..Len(args0) : args0[i] # "--resume")
       => /\ cmdArgs = args0 \o <<"--", "-oX", "-">>
          /\ Cardinality({i \in 1..Len(cmdArgs) : cmdArgs[i] = "-oX"}) = 1
C20_Witness ==
  /\ spawned = 2
  /\ Args = <<"-a", "example.test">>
  /\ cmdArgs = <<"-a", "example.test", "--", "-oX", "-">>
  /\ Len(spare) >= 1 /\ spare[1] = "--"

====
